---- MODULE Spec2Model ----
(***************************************************************************)
(* Order service (server.js): the place-order workflow of POST /api/orders *)
(* with its validation loop, save, order-created message and stock         *)
(* decrements, and the GET /api/orders/:id and PATCH /api/orders/:id       *)
(* handlers.  A handler runs without interruption from one `await` to the  *)
(* next (Node's single thread), so every action below is one such stretch: *)
(* the database operation that the await waits for, followed by the        *)
(* synchronous code up to the next await or to the response.               *)
(***************************************************************************)
EXTENDS Integers, Sequences, FiniteSets, TLC

\* ---------------------------------------------------------------- bounds
MaxLines == 2
MaxQty == 2
MaxStock == 2
MaxOrders == 2
\* the orders stored when the list of orders is studied
MaxListed == 52

\* ------------------------------------------------------- request values
\* JSON values of a request body, as far as the handlers look at them.
Undefined == [t |-> "undefined"]
Num(n) == [t |-> "number", v |-> n]
Str(s) == [t |-> "string", v |-> s]
\* a well-formed ObjectId string
Oid(x) == [t |-> "oid", v |-> x]

\* JavaScript truthiness: !v is ~Truthy(v)
Truthy(v) ==
    CASE v.t = "undefined" -> FALSE
      [] v.t = "number" -> v.v # 0
      [] v.t = "string" -> Len(v.v) > 0
      [] OTHER -> TRUE

\* ---------------------------------------------------------------- catalog
Products == {"p1", "p2"}
\* an identifier that resolves to no product
UnknownProduct == "px"
Handlers == {1, 2}

ProductName(p) == IF p = "p1" THEN "Alpha" ELSE "Beta"
ProductPrice(p) == IF p = "p1" THEN 10 ELSE 3

\* Product.findById(productId): the product document, or null
Null == [t |-> "null"]
findProduct(catalog, productId) ==
    IF productId.v \in DOMAIN catalog
    THEN [t |-> "product", _id |-> productId.v, name |-> catalog[productId.v].name,
          price |-> catalog[productId.v].price, stock |-> catalog[productId.v].stock]
    ELSE Null

\* a decrement that takes one unit whatever the quantity
decrementStock_ByOne(catalog, productId, quantity) ==
    IF productId \in DOMAIN catalog
    THEN [catalog EXCEPT ![productId].stock = @ - 1]
    ELSE catalog

\* a decrement conditioned on the stock covering the quantity
decrementStock_IfEnough(catalog, productId, quantity) ==
    IF productId \in DOMAIN catalog /\ catalog[productId].stock >= quantity
    THEN [catalog EXCEPT ![productId].stock = @ - quantity]
    ELSE catalog

\* { $inc: { stock: -quantity } } on the product with that _id
decrementStock(catalog, productId, quantity) ==
    IF productId \in DOMAIN catalog
    THEN [catalog EXCEPT ![productId].stock = @ - quantity]
    ELSE catalog

\* ---------------------------------------------------------------- statuses
PENDING == <<"P", "E", "N", "D", "I", "N", "G">>
COMPLETED == <<"C", "O", "M", "P", "L", "E", "T", "E", "D">>
CANCELLED == <<"C", "A", "N", "C", "E", "L", "L", "E", "D">>
allowedStatuses == {PENDING, COMPLETED, CANCELLED}

LowerCase == <<"a", "b", "c", "d", "e", "f", "g", "h", "i", "j", "k", "l", "m",
               "n", "o", "p", "q", "r", "s", "t", "u", "v", "w", "x", "y", "z">>
UpperCase == <<"A", "B", "C", "D", "E", "F", "G", "H", "I", "J", "K", "L", "M",
               "N", "O", "P", "Q", "R", "S", "T", "U", "V", "W", "X", "Y", "Z">>

\* the upper-case letter of each lower-case one
UpperOf ==
    [c \in {LowerCase[i] : i \in DOMAIN LowerCase} |->
        UpperCase[CHOOSE i \in DOMAIN LowerCase : LowerCase[i] = c]]

UpperChar(c) == IF c \in DOMAIN UpperOf THEN UpperOf[c] ELSE c

\* a status stored as it was sent
toUpperCase_Same(s) == s

\* String.prototype.toUpperCase
toUpperCase(s) == [i \in DOMAIN s |-> UpperChar(s[i])]

\* ---------------------------------------------------------------- responses
NoRes == [status |-> 0]
Res(code, body) == [status |-> code, body |-> body]
Err(text) == [error |-> text]
ErrAbout(text, what) == [error |-> text, about |-> what]

EmptyOrderError == Err("Order must contain at least one item.")
BadItemError == Err("Each item needs productId and positive quantity.")
ProductNotFoundError(productId) == ErrAbout("Product not found: ", productId)
NotEnoughStockError(name) == ErrAbout("Not enough stock for product: ", name)
CreateFailedError == Err("Failed to create order.")
OrderNotFoundError == Err("Order not found.")
InvalidStatusError == Err("Invalid status. Allowed values: PENDING, COMPLETED, CANCELLED.")

\* ---------------------------------------------------------------- state
VARIABLES
    products,    \* the products collection: id -> [name, price, stock]
    orders,      \* the orders collection in insertion order; an order's _id is its position
    sbSender,    \* TRUE when initServiceBus created a sender
    sending,     \* OrderCreated payloads handed to sbSender.sendMessages and not settled
    published,   \* OrderCreated payloads the queue accepted
    req,         \* per handler: the locals of the POST /api/orders invocation it runs
    reply,       \* the response GET or PATCH /api/orders/:id has just written
    \* history of the run, read by the properties only
    requested,   \* per order: the items of the request that created it
    stock0,      \* per handler: every product's stock when its current request arrived
    alone,       \* per handler: no other placement has run while its current request ran
    updated      \* the ids of the orders a status update has been applied to

vars == <<products, orders, sbSender, sending, published, req, reply,
          requested, stock0, alone, updated>>

Idle == [pc |-> "idle", length |-> 0, items |-> <<>>, orderItems |-> <<>>,
         totalAmount |-> 0, savedOrder |-> Null, j |-> 0, res |-> NoRes]

\* was: the addressed order's status before the request (history)
NoReply == [op |-> "none", res |-> NoRes, was |-> Null]
Reply(op, res, was) == [op |-> op, res |-> res, was |-> was]

StockOf(catalog) == [p \in DOMAIN catalog |-> catalog[p].stock]

ZeroStock == [p \in Products |-> 0]

InitWith(senders) ==
    /\ \E stock \in [Products -> 0..MaxStock] :
          products = [p \in Products |->
                        [name |-> ProductName(p), price |-> ProductPrice(p), stock |-> stock[p]]]
    /\ orders = <<>>
    /\ sbSender \in senders
    /\ sending = {}
    /\ published = {}
    /\ req = [h \in Handlers |-> Idle]
    /\ reply = NoReply
    /\ requested = <<>>
    /\ stock0 = [h \in Handlers |-> ZeroStock]
    /\ alone = [h \in Handlers |-> TRUE]
    /\ updated = {}

Init == InitWith(BOOLEAN)

\* A response is written in the same stretch of code that decides it; the state that
\* shows it is left by Finish or ReplySent before any other stretch runs.
Settled == reply = NoReply /\ \A h \in Handlers : req[h].pc # "done"

\* ------------------------------------------------- POST /api/orders
ProductIdValues == {Undefined} \cup {Oid(p) : p \in Products \cup {UnknownProduct}}
QuantityValues == {Undefined} \cup {Num(q) : q \in -1..MaxQty}
ItemValues == [productId : ProductIdValues, quantity : QuantityValues]
\* req.body.items: absent, a value that is no array, or an array.  The loop reads
\* an array's items one by one (for...of): an item is drawn when the loop reaches
\* it, and the handler's items are the ones read so far.
ItemsValues ==
    {Undefined, [t |-> "object"]} \cup {[t |-> "array", length |-> n] : n \in 0..MaxLines}

\* a check that lets an empty array through
NoItems_AnyArray(items) == items.t # "array"

\* !Array.isArray(items) || items.length === 0
NoItems(items) == items.t # "array" \/ items.length = 0

\* a check that forgets the sign of the quantity
BadItem_NoSign(item) ==
    \/ ~Truthy(item.productId)
    \/ ~Truthy(item.quantity)

\* !productId || !quantity || quantity <= 0
BadItem(item) ==
    \/ ~Truthy(item.productId)
    \/ ~Truthy(item.quantity)
    \/ item.quantity.v <= 0

\* a stock check that is off by one
NotEnoughStock_OffByOne(product, quantity) == product.stock < quantity.v - 1

\* product.stock < quantity
NotEnoughStock(product, quantity) == product.stock < quantity.v

\* a line total that forgets the quantity
lineTotal_PriceOnly(product, quantity) == product.price

\* product.price * quantity
lineTotal(product, quantity) == product.price * quantity.v

\* an entry that drops the requested quantity
OrderItem_One(product, quantity) ==
    [productId |-> product._id, name |-> product.name, price |-> product.price,
     quantity |-> 1]

\* the entry pushed on orderItems
OrderItem(product, quantity) ==
    [productId |-> product._id, name |-> product.name, price |-> product.price,
     quantity |-> quantity.v]

\* new Order({status: "PENDING", items: orderItems, totalAmount}) as save() stores it
NewOrder(id, orderItems, totalAmount) ==
    [_id |-> id, status |-> PENDING, items |-> orderItems, totalAmount |-> totalAmount,
     createdAt |-> id]

\* a payload without the order's lines
Payload_NoLines(order) ==
    [orderId |-> order._id, customerEmail |-> Null, items |-> <<>>,
     totalAmount |-> order.totalAmount, status |-> order.status,
     createdAt |-> order.createdAt]

\* the payload sendOrderCreatedMessage builds
Payload(order) ==
    [orderId |-> order._id, customerEmail |-> Null, items |-> order.items,
     totalAmount |-> order.totalAmount, status |-> order.status,
     createdAt |-> order.createdAt]

InFlight(r) == r.pc \in {"find", "save", "dec"}

\* res.status(code).json(body), and the handler returns
Respond(r, code, body) == [r EXCEPT !.pc = "done", !.res = Res(code, body)]

\* One iteration of the validation loop up to its await: the item's synchronous
\* checks and the call of Product.findById.
ReadItem(r, item) ==
    IF BadItem(item)
    THEN Respond([r EXCEPT !.items = Append(@, item)], 400, BadItemError)
    ELSE [r EXCEPT !.pc = "find", !.items = Append(@, item)]

\* The head of the validation loop: the next item is read, or newOrder.save() is
\* called when the items are exhausted.  choices: the items a request may hold.
NextItemFrom(h, r, choices) ==
    IF Len(r.items) = r.length
    THEN req' = [req EXCEPT ![h] = [r EXCEPT !.pc = "save"]]
    ELSE \E item \in choices : req' = [req EXCEPT ![h] = ReadItem(r, item)]

NextItem(h, r) == NextItemFrom(h, r, ItemValues)

\* an unknown product answered with 404
ProductNotFound_404(r, productId) == Respond(r, 404, ProductNotFoundError(productId))

\* return res.status(400).json({ error: `Product not found: ${productId}` })
ProductNotFound(r, productId) == Respond(r, 400, ProductNotFoundError(productId))

\* Requests are served by the first free handler.
FirstFree(h) == \A x \in Handlers : req[x].pc = "idle" => ~(x < h)

\* A request with this items field arrives and runs to its first await.
\* choices: the items it may hold; capacity: the orders the store is let to hold.
ArriveFrom(h, items, choices, capacity) ==
    /\ Settled
    /\ req[h].pc = "idle"
    /\ FirstFree(h)
    /\ Len(orders) + Cardinality({x \in Handlers : req[x].pc \in {"find", "save"}}) < capacity
    /\ IF NoItems(items)
       THEN req' = [req EXCEPT ![h] = Respond(Idle, 400, EmptyOrderError)]
       ELSE NextItemFrom(h, [Idle EXCEPT !.length = items.length], choices)
    /\ LET others == \E y \in Handlers \ {h} : InFlight(req[y]) IN
       /\ alone' = [x \in Handlers |->
                      IF x = h THEN ~others ELSE alone[x] /\ ~InFlight(req'[h])]
       /\ stock0' = [x \in Handlers |->
                       IF x = h THEN (IF others THEN ZeroStock ELSE StockOf(products))
                       ELSE IF InFlight(req'[h]) THEN ZeroStock ELSE stock0[x]]
    /\ UNCHANGED <<products, orders, sbSender, sending, published, reply, requested, updated>>

Arrive(h, items) == ArriveFrom(h, items, ItemValues, MaxOrders)

Receive(h) == \E items \in ItemsValues : Arrive(h, items)

\* Product.findById resolves for the current item; the rest of the loop body runs.
FindReturns(h) ==
    /\ Settled
    /\ req[h].pc = "find"
    /\ LET r == req[h]
           item == r.items[Len(r.items)]
           product == findProduct(products, item.productId)
       IN IF product = Null
          THEN req' = [req EXCEPT ![h] = ProductNotFound(r, item.productId.v)]
          ELSE IF NotEnoughStock(product, item.quantity)
          THEN req' = [req EXCEPT ![h] =
                         Respond(r, 400, NotEnoughStockError(product.name))]
          ELSE NextItem(h, [r EXCEPT
                              !.totalAmount = @ + lineTotal(product, item.quantity),
                              !.orderItems = Append(@, OrderItem(product, item.quantity))])
    /\ UNCHANGED <<products, orders, sbSender, sending, published, reply, requested,
                   stock0, alone, updated>>

\* sendOrderCreatedMessage up to its await: nothing without a sender, else the
\* payload is handed to sbSender.sendMessages.
sendOrderCreatedMessage(order) ==
    IF sbSender
    THEN sending' = sending \cup {Payload(order)}
    ELSE UNCHANGED sending

\* newOrder.save() resolves: the order is stored, the message is started and the
\* first Product.updateOne is called.
SaveOrder(h) ==
    /\ Settled
    /\ req[h].pc = "save"
    /\ LET r == req[h]
           savedOrder == NewOrder(Len(orders) + 1, r.orderItems, r.totalAmount)
       IN /\ orders' = Append(orders, savedOrder)
          /\ requested' = Append(requested, r.items)
          /\ sendOrderCreatedMessage(savedOrder)
          /\ req' = [req EXCEPT ![h] = [r EXCEPT !.pc = "dec", !.savedOrder = savedOrder]]
    /\ UNCHANGED <<products, sbSender, published, reply, stock0, alone, updated>>

\* a failed save whose message has gone out all the same
SaveFails_Sends(h) ==
    /\ Settled
    /\ req[h].pc = "save"
    /\ sendOrderCreatedMessage(NewOrder(Len(orders) + 1, req[h].orderItems,
                                          req[h].totalAmount))
    /\ req' = [req EXCEPT ![h] = Respond(req[h], 500, CreateFailedError)]
    /\ UNCHANGED <<products, orders, sbSender, published, reply, requested,
                   stock0, alone, updated>>

\* newOrder.save() rejects: the catch block answers 500.
SaveFails(h) ==
    /\ Settled
    /\ req[h].pc = "save"
    /\ req' = [req EXCEPT ![h] = Respond(req[h], 500, CreateFailedError)]
    /\ UNCHANGED <<products, orders, sbSender, sending, published, reply, requested,
                   stock0, alone, updated>>

\* Product.updateOne resolves for the next order item; after the last one the
\* handler answers 201 with the saved order.
DecrementStock(h) ==
    /\ Settled
    /\ req[h].pc = "dec"
    /\ LET r == req[h]
           item == r.orderItems[r.j + 1]
           r1 == [r EXCEPT !.j = @ + 1]
       IN /\ products' = decrementStock(products, item.productId, item.quantity)
          /\ req' = [req EXCEPT ![h] =
                       IF r1.j = Len(r.orderItems)
                       THEN Respond(r1, 201, r.savedOrder)
                       ELSE r1]
    /\ UNCHANGED <<orders, sbSender, sending, published, reply, requested, stock0,
                   alone, updated>>

\* the stock with the quantities of these order lines given back
RECURSIVE givenBack(_, _)
givenBack(catalog, lines) ==
    IF lines = <<>> THEN catalog
    ELSE givenBack(decrementStock(catalog, lines[1].productId, 0 - lines[1].quantity),
                   Tail(lines))

\* a failed decrement that undoes the decrements made before it
DecrementFails_RollsBack(h) ==
    /\ Settled
    /\ req[h].pc = "dec"
    /\ products' = givenBack(products, SubSeq(req[h].orderItems, 1, req[h].j))
    /\ req' = [req EXCEPT ![h] = Respond(req[h], 500, CreateFailedError)]
    /\ UNCHANGED <<orders, sbSender, sending, published, reply, requested,
                   stock0, alone, updated>>

\* Product.updateOne rejects: the catch block answers 500.
DecrementFails(h) ==
    /\ Settled
    /\ req[h].pc = "dec"
    /\ req' = [req EXCEPT ![h] = Respond(req[h], 500, CreateFailedError)]
    /\ UNCHANGED <<products, orders, sbSender, sending, published, reply, requested,
                   stock0, alone, updated>>

\* The handler has returned; it is free for the next request.
Finish(h) ==
    /\ req[h].pc = "done"
    /\ req' = [req EXCEPT ![h] = Idle]
    /\ stock0' = [stock0 EXCEPT ![h] = ZeroStock]
    /\ alone' = [alone EXCEPT ![h] = TRUE]
    /\ UNCHANGED <<products, orders, sbSender, sending, published, reply, requested, updated>>

\* sbSender.sendMessages resolves: the queue has the message.
SendSucceeds ==
    /\ Settled
    /\ \E m \in sending :
          /\ sending' = sending \ {m}
          /\ published' = published \cup {m}
    /\ UNCHANGED <<products, orders, sbSender, req, reply, requested, stock0, alone, updated>>

\* a failed send that fails the placement it belongs to
SendFails_Surfaces ==
    /\ Settled
    /\ \E m \in sending :
          /\ sending' = sending \ {m}
          /\ req' = [h \in Handlers |->
                       IF req[h].pc = "dec" /\ req[h].savedOrder._id = m.orderId
                       THEN Respond(req[h], 500, CreateFailedError)
                       ELSE req[h]]
    /\ UNCHANGED <<products, orders, sbSender, published, reply, requested, stock0,
                   alone, updated>>

\* sbSender.sendMessages rejects: the catch block logs the failure.
SendFails ==
    /\ Settled
    /\ \E m \in sending : sending' = sending \ {m}
    /\ UNCHANGED <<products, orders, sbSender, published, req, reply, requested, stock0,
                   alone, updated>>

\* ------------------------------------------------- GET /api/orders/:id
OrderIdValues == 1..MaxOrders

\* Order.findById(id)
findOrder(collection, id) == IF id \in DOMAIN collection THEN collection[id] ELSE Null

StatusOf(collection, id) ==
    IF id \in DOMAIN collection THEN Str(collection[id].status) ELSE Null

getOrder(collection, id) ==
    IF findOrder(collection, id) = Null
    THEN Res(404, OrderNotFoundError)
    ELSE Res(200, findOrder(collection, id))

GetOrder(id) ==
    /\ Settled
    /\ reply' = Reply("get", getOrder(orders, id), StatusOf(orders, id))
    /\ UNCHANGED <<products, orders, sbSender, sending, published, req, requested,
                   stock0, alone, updated>>

\* ------------------------------------------------- GET /api/orders
\* .limit(50)
ListLimit == 50

\* .sort({ createdAt: -1 }) of a set of orders
RECURSIVE newestFirst(_)
newestFirst(found) ==
    IF found = {} THEN <<>>
    ELSE LET newest == CHOOSE x \in found : \A y \in found : y.createdAt <= x.createdAt
         IN <<newest>> \o newestFirst(found \ {newest})

limit(sorted, n) == IF Len(sorted) <= n THEN sorted ELSE SubSeq(sorted, 1, n)

\* the first orders stored, in the order of storing
listOrders_Oldest(collection) == limit(collection, ListLimit)

\* Order.find().sort({ createdAt: -1 }).limit(50)
listOrders(collection) ==
    limit(newestFirst({collection[i] : i \in DOMAIN collection}), ListLimit)

ListOrders ==
    /\ Settled
    /\ reply' = Reply("list", Res(200, listOrders(orders)), Null)
    /\ UNCHANGED <<products, orders, sbSender, sending, published, req, requested,
                   stock0, alone, updated>>

\* ------------------------------------------------- PATCH /api/orders/:id
StatusValues ==
    {Undefined, Num(1), Str(<<>>),
     Str(<<"p", "e", "n", "d", "i", "n", "g">>),
     Str(<<"C", "o", "m", "p", "l", "e", "t", "e", "d">>),
     Str(CANCELLED),
     Str(<<"s", "h", "i", "p", "p", "e", "d">>)}

\* a check that refuses only a missing status
InvalidStatus_FalsyOnly(status) == ~Truthy(status)

\* !status || !allowedStatuses.includes(status.toUpperCase()), for a string or a
\* falsy value
InvalidStatus(status) ==
    \/ ~Truthy(status)
    \/ toUpperCase(status.v) \notin allowedStatuses

\* an update that creates the order when the id resolves to none
updateStatus_Upsert(collection, id, status) ==
    IF id \in DOMAIN collection
    THEN [collection EXCEPT ![id].status = status]
    ELSE IF id = Len(collection) + 1
    THEN Append(collection, [NewOrder(id, <<>>, 0) EXCEPT !.status = status])
    ELSE collection

\* an update that reaches every order
updateStatus_All(collection, id, status) ==
    IF id \in DOMAIN collection
    THEN [k \in DOMAIN collection |-> [collection[k] EXCEPT !.status = status]]
    ELSE collection

\* Order.findByIdAndUpdate(id, {status}, {new: true}): the collection afterwards
updateStatus(collection, id, status) ==
    IF id \in DOMAIN collection
    THEN [collection EXCEPT ![id].status = status]
    ELSE collection

\* A truthy status that is no string has no toUpperCase: the call throws before
\* the try block, and the handler's promise rejects with nothing to catch it.
\* What the client then gets is the framework's choice: no answer at all, or the
\* answer of its error handler.
UncaughtOutcomes == {NoRes, Res(500, Err("Internal Server Error"))}

UpdateStatus(id, status) ==
    /\ Settled
    /\ IF Truthy(status) /\ status.t # "string"
       THEN /\ \E res \in UncaughtOutcomes :
                  reply' = Reply("patch", res, StatusOf(orders, id))
            /\ UNCHANGED <<orders, updated>>
       ELSE IF InvalidStatus(status)
       THEN /\ reply' = Reply("patch", Res(400, InvalidStatusError), StatusOf(orders, id))
            /\ UNCHANGED <<orders, updated>>
       ELSE LET updatedOrder == findOrder(updateStatus(orders, id, toUpperCase(status.v)), id)
            IN IF updatedOrder = Null
               THEN /\ reply' = Reply("patch", Res(404, OrderNotFoundError), Null)
                    /\ UNCHANGED <<orders, updated>>
               ELSE /\ orders' = updateStatus(orders, id, toUpperCase(status.v))
                    /\ updated' = updated \cup {id}
                    /\ reply' = Reply("patch", Res(200, updatedOrder), StatusOf(orders, id))
    /\ UNCHANGED <<products, sbSender, sending, published, req, requested, stock0, alone>>

\* The response of a GET or of PATCH has gone out.
ReplySent ==
    /\ reply # NoReply
    /\ reply' = NoReply
    /\ UNCHANGED <<products, orders, sbSender, sending, published, req, requested,
                   stock0, alone, updated>>

\* ---------------------------------------------------------------- specifications
\* A request that arrives while no other placement is in flight.
ReceiveAlone(h) ==
    /\ \A y \in Handlers : ~InFlight(req[y])
    /\ Receive(h)

\* The whole service.
Next ==
    \/ \E h \in Handlers : Receive(h)
    \/ \E h \in Handlers : FindReturns(h)
    \/ \E h \in Handlers : SaveOrder(h)
    \/ \E h \in Handlers : SaveFails(h)
    \/ \E h \in Handlers : DecrementStock(h)
    \/ \E h \in Handlers : DecrementFails(h)
    \/ \E h \in Handlers : Finish(h)
    \/ SendSucceeds
    \/ SendFails
    \/ \E id \in OrderIdValues : GetOrder(id)
    \/ ListOrders
    \/ \E id \in OrderIdValues, status \in StatusValues : UpdateStatus(id, status)
    \/ ReplySent

System == Init /\ [][Next]_vars

\* Concurrent placements.
NextPlace ==
    \/ \E h \in Handlers : Receive(h)
    \/ \E h \in Handlers : FindReturns(h)
    \/ \E h \in Handlers : SaveOrder(h)
    \/ \E h \in Handlers : SaveFails(h)
    \/ \E h \in Handlers : DecrementStock(h)
    \/ \E h \in Handlers : DecrementFails(h)
    \/ \E h \in Handlers : Finish(h)

Spec == Init /\ [][NextPlace]_vars

\* Placements one after the other, and the order-created messages.
NextEvents ==
    \/ \E h \in Handlers : ReceiveAlone(h)
    \/ \E h \in Handlers : FindReturns(h)
    \/ \E h \in Handlers : SaveOrder(h)
    \/ \E h \in Handlers : SaveFails(h)
    \/ \E h \in Handlers : DecrementStock(h)
    \/ \E h \in Handlers : DecrementFails(h)
    \/ \E h \in Handlers : Finish(h)
    \/ SendSucceeds
    \/ SendFails

SpecEvents == Init /\ [][NextEvents]_vars

\* Placements one after the other.
NextSeq ==
    \/ \E h \in Handlers : ReceiveAlone(h)
    \/ \E h \in Handlers : FindReturns(h)
    \/ \E h \in Handlers : SaveOrder(h)
    \/ \E h \in Handlers : SaveFails(h)
    \/ \E h \in Handlers : DecrementStock(h)
    \/ \E h \in Handlers : DecrementFails(h)
    \/ \E h \in Handlers : Finish(h)

SpecSeq == Init /\ [][NextSeq]_vars

\* Placements one after the other, and the reads and status updates of orders.
NextStatus ==
    \/ \E h \in Handlers : ReceiveAlone(h)
    \/ \E h \in Handlers : FindReturns(h)
    \/ \E h \in Handlers : SaveOrder(h)
    \/ \E h \in Handlers : SaveFails(h)
    \/ \E h \in Handlers : DecrementStock(h)
    \/ \E h \in Handlers : Finish(h)
    \/ \E id \in OrderIdValues : GetOrder(id)
    \/ \E id \in OrderIdValues, status \in StatusValues : UpdateStatus(id, status)
    \/ ReplySent

\* the message channel is not configured
InitStatus == InitWith({FALSE})

SpecStatus == InitStatus /\ [][NextStatus]_vars

\* Placements of one unit of one product, one after the other, and the list of
\* orders: the store grows past the list's limit.
ListItem == [productId |-> Oid("p1"), quantity |-> Num(1)]

ReceiveListed(h) ==
    /\ \A y \in Handlers : ~InFlight(req[y])
    /\ ArriveFrom(h, [t |-> "array", length |-> 1], {ListItem}, MaxListed)

NextList ==
    \/ \E h \in Handlers : ReceiveListed(h)
    \/ \E h \in Handlers : FindReturns(h)
    \/ \E h \in Handlers : SaveOrder(h)
    \/ \E h \in Handlers : DecrementStock(h)
    \/ \E h \in Handlers : Finish(h)
    \/ ListOrders
    \/ ReplySent

\* every product is stocked for all the placements; no message channel
InitList ==
    /\ products = [p \in Products |->
                     [name |-> ProductName(p), price |-> ProductPrice(p), stock |-> MaxListed]]
    /\ orders = <<>>
    /\ sbSender = FALSE
    /\ sending = {}
    /\ published = {}
    /\ req = [h \in Handlers |-> Idle]
    /\ reply = NoReply
    /\ requested = <<>>
    /\ stock0 = [h \in Handlers |-> ZeroStock]
    /\ alone = [h \in Handlers |-> TRUE]
    /\ updated = {}

SpecList == InitList /\ [][NextList]_vars

\* ---------------------------------------------------------------- properties
\* the item whose lookup the handler awaits
CurrentItem(r) == r.items[Len(r.items)]

\* handler h takes a step out of the state r
Steps(h, r) == req[h] = r /\ req'[h] # r

\* the quantity a request's items order of product p
RECURSIVE Ordered(_, _)
Ordered(items, p) ==
    IF items = <<>> THEN 0
    ELSE (IF items[1].productId.v = p THEN items[1].quantity.v ELSE 0)
           + Ordered(Tail(items), p)

\* the sum of price * quantity over an order's lines
RECURSIVE SumOfLines(_)
SumOfLines(lines) ==
    IF lines = <<>> THEN 0
    ELSE lines[1].price * lines[1].quantity + SumOfLines(Tail(lines))

\* an order's lines are the request's items, one to one and in order
LinesMatch(lines, items) ==
    /\ Len(lines) = Len(items)
    /\ \A k \in DOMAIN lines :
          /\ lines[k].productId = items[k].productId.v
          /\ lines[k].quantity = items[k].quantity.v

\* two characters that are the same letter, in whatever case
SameLetter(c, d) ==
    \/ c = d
    \/ \E k \in DOMAIN LowerCase : {c, d} = {LowerCase[k], UpperCase[k]}

EqualIgnoringCase(s, a) ==
    /\ Len(s) = Len(a)
    /\ \A k \in DOMAIN s : SameLetter(s[k], a[k])

\* the allowed statuses a string status value equals ignoring case
StringStatuses == {status.v : status \in {x \in StatusValues : x.t = "string"}}

RecognizedAs ==
    [s \in StringStatuses |-> {a \in allowedStatuses : EqualIgnoringCase(s, a)}]

\* a status value that is, ignoring case, one of the three allowed ones
Recognized(status) ==
    /\ status.t = "string"
    /\ RecognizedAs[status.v] # {}

\* C1: when the lookup of a line returns a product whose stock is below the line's
\* quantity, the handler answers 400 with "Not enough stock for product: <name>",
\* the request has stored no order and decremented no stock (its earlier lines
\* included), and the step changes neither the orders nor any stock.
C1_InsufficientStockRejected ==
    [][\A h \in Handlers :
         LET r == req[h]
             p == CurrentItem(r).productId.v
         IN (/\ r.pc = "find"
             /\ Steps(h, r)
             /\ p \in DOMAIN products
             /\ products[p].stock < CurrentItem(r).quantity.v)
            => /\ req'[h].pc = "done"
               /\ req'[h].res = Res(400, NotEnoughStockError(products[p].name))
               /\ req'[h].savedOrder = Null
               /\ req'[h].j = 0
               /\ orders' = orders
               /\ products' = products]_vars

\* C1 happens: a request is refused for stock on its second line, after a line
\* that passed.
C1_Witness ==
    \E h \in Handlers :
        /\ req[h].pc = "done"
        /\ req[h].res.status = 400
        /\ req[h].res.body \in {NotEnoughStockError(ProductName(p)) : p \in Products}
        /\ Len(req[h].orderItems) >= 1

\* C2: when the lookup of a line finds no product, the handler answers 400
\* "Product not found", and orders, stocks and messages (in flight and published)
\* are what they were; and a request gets past validation (to the save, the
\* decrements, or an answer other than 400) only when every one of its items has
\* been read and resolves in the catalog.
C2_UnknownProductRejected ==
    /\ [][\A h \in Handlers :
            LET r == req[h] IN
            (/\ r.pc = "find"
             /\ Steps(h, r)
             /\ CurrentItem(r).productId.v \notin DOMAIN products)
            => /\ req'[h].pc = "done"
               /\ req'[h].res = Res(400, ProductNotFoundError(CurrentItem(r).productId.v))
               /\ req'[h].savedOrder = Null
               /\ req'[h].j = 0
               /\ orders' = orders
               /\ products' = products
               /\ sending' = sending
               /\ published' = published]_vars
    /\ [](\A h \in Handlers :
            LET r == req[h] IN
            (r.pc \in {"save", "dec"} \/ (r.pc = "done" /\ r.res.status # 400))
            => /\ Len(r.items) = r.length
               /\ \A k \in DOMAIN r.items : r.items[k].productId.v \in DOMAIN products)

\* C2 happens: a request is refused for an unknown product on its second line,
\* with an order of an earlier request stored and its message published.
C2_Witness ==
    \E h \in Handlers :
        /\ req[h].pc = "done"
        /\ req[h].res = Res(400, ProductNotFoundError(UnknownProduct))
        /\ Len(req[h].orderItems) >= 1
        /\ Len(orders) >= 1
        /\ published # {}

\* C3: a request whose items field is absent, no array or an empty array is
\* answered 400 "Order must contain at least one item." in the arrival step: no
\* item is read, no lookup is awaited, nothing is stored.
C3_NoItemsRejected ==
    [][\A h \in Handlers, items \in ItemsValues :
         ((items.t # "array" \/ items.length = 0) /\ Arrive(h, items))
         => /\ req'[h].pc = "done"
            /\ req'[h].res = Res(400, EmptyOrderError)
            /\ req'[h].items = <<>>
            /\ req'[h].savedOrder = Null
            /\ orders' = orders
            /\ products' = products]_vars

\* C3 happens: a request has been refused for having no items.
C3_Witness ==
    \E h \in Handlers :
        /\ req[h].pc = "done"
        /\ req[h].res = Res(400, EmptyOrderError)

\* C4: when a request that ran with no other placement in flight is answered 201,
\* every product's stock is its stock at the request's arrival minus the quantity
\* the request's items order of it (nothing for a product they do not name).
C4_StockAfterPlacement ==
    \A h \in Handlers :
        (req[h].pc = "done" /\ req[h].res.status = 201 /\ alone[h])
        => \A p \in Products :
              products[p].stock = stock0[h][p] - Ordered(req[h].items, p)

\* C4 happens: a request of two lines for two products has been answered 201.
C4_Witness ==
    \E h \in Handlers :
        /\ req[h].pc = "done"
        /\ req[h].res.status = 201
        /\ alone[h]
        /\ Len(req[h].items) = 2
        /\ req[h].items[1].productId # req[h].items[2].productId
        /\ req[h].items[1].quantity.v = 2

\* C5: with placements that do not overlap, no product's stock is negative.
C5_StockNeverNegative == \A p \in Products : products[p].stock >= 0

\* C6: the stock check and the decrement are separate steps with nothing binding
\* them: the check changes no stock, and a decrement subtracts the line's quantity
\* from whatever the stock is by then, below zero included.
C6_CheckThenDecrement ==
    [][\A h \in Handlers :
         LET r == req[h] IN
         /\ (r.pc = "find" /\ Steps(h, r)) => products' = products
         /\ (r.pc = "dec" /\ Steps(h, r) /\ req'[h].j = r.j + 1)
            => LET line == r.orderItems[r.j + 1] IN
               products' = [products EXCEPT ![line.productId].stock = @ - line.quantity]]_vars

\* C6 happens (oversell): two orders of one line each for the same product are
\* stored, each having passed its stock check, and the product's stock is
\* negative.
C6_Witness ==
    \E p \in Products :
        /\ products[p].stock < 0
        /\ Len(orders) = 2
        /\ \A id \in DOMAIN orders :
              /\ Len(orders[id].items) = 1
              /\ orders[id].items[1].productId = p

\* C7: every stored order's totalAmount is the sum of price * quantity over its own
\* lines, and each line carries the catalog's price and name of its product.
C7_TotalIsSumOfLines ==
    \A id \in DOMAIN orders :
        /\ orders[id].totalAmount = SumOfLines(orders[id].items)
        /\ \A k \in DOMAIN orders[id].items :
              LET line == orders[id].items[k] IN
              /\ line.price = products[line.productId].price
              /\ line.name = products[line.productId].name

\* C7 happens: an order of two lines, one of quantity 2, has had its status
\* updated and a later order has been stored.
C7_Witness ==
    /\ Len(orders) = 2
    /\ orders[1].status # PENDING
    /\ Len(orders[1].items) = 2
    /\ \E k \in DOMAIN orders[1].items : orders[1].items[k].quantity = 2

\* C8: get-by-id of a stored order that no status update has touched answers 200
\* with that order, its status PENDING and its lines the request's items, one to
\* one, in order, with the same productId and quantity.
C8_GetAfterPlacement ==
    \A id \in DOMAIN orders :
        id \notin updated
        => LET res == getOrder(orders, id) IN
           /\ res.status = 200
           /\ res.body._id = id
           /\ res.body.status = PENDING
           /\ LinesMatch(res.body.items, requested[id])

\* C8 happens: a get-by-id has returned an order of two lines that no status
\* update has touched.
C8_Witness ==
    /\ reply.op = "get"
    /\ reply.res.status = 200
    /\ reply.res.body._id \notin updated
    /\ Len(reply.res.body.items) = 2

\* C9: a status update of an existing order with a value that is, ignoring case,
\* one of the allowed statuses answers 200, stores that status in upper case
\* whatever the order's status was, and get-by-id then returns it.
C9_UpdateStatusAccepted ==
    [][\A id \in OrderIdValues, status \in StatusValues :
         \A a \in allowedStatuses :
            (/\ id \in DOMAIN orders
             /\ status.t = "string"
             /\ a \in RecognizedAs[status.v]
             /\ UpdateStatus(id, status))
            => /\ reply'.res.status = 200
               /\ reply'.res.body.status = a
               /\ orders'[id].status = a
               /\ getOrder(orders', id) = Res(200, orders'[id])]_vars

\* C9 happens: an order that was COMPLETED has been set back to PENDING.
C9_Witness ==
    /\ reply.op = "patch"
    /\ reply.res.status = 200
    /\ reply.was = Str(COMPLETED)
    /\ reply.res.body.status = PENDING

\* C10: a status update whose value is absent or is not, ignoring case, one of the
\* allowed statuses (whatever its type) is answered 400 and changes no order; and
\* every stored order's status is one of the allowed ones.
C10_InvalidStatusRejected ==
    /\ [][\A id \in OrderIdValues, status \in StatusValues :
            (~Recognized(status) /\ UpdateStatus(id, status))
            => /\ reply'.res.status = 400
               /\ orders' = orders]_vars
    /\ [](\A id \in DOMAIN orders : orders[id].status \in allowedStatuses)

\* C11: a status update with an allowed status for an id that resolves to no order
\* is answered 404 "Order not found." and leaves the orders as they are (none
\* created, none changed); a get-by-id for such an id is answered 404 too.
C11_UnknownOrderNotFound ==
    [][\A id \in OrderIdValues :
         id \notin DOMAIN orders
         => /\ \A status \in StatusValues :
                  (Recognized(status) /\ UpdateStatus(id, status))
                  => /\ reply'.res = Res(404, OrderNotFoundError)
                     /\ orders' = orders
            /\ GetOrder(id)
               => /\ reply'.res = Res(404, OrderNotFoundError)
                  /\ orders' = orders]_vars

\* C11 happens: with an order stored, a status update for another id has been
\* answered 404.
C11_Witness ==
    /\ reply.op = "patch"
    /\ reply.res = Res(404, OrderNotFoundError)
    /\ Len(orders) = 1

\* the order a request's items make, from the request and the catalog alone
ExpectedOrder(id, items) ==
    LET lines == [k \in DOMAIN items |->
                    [productId |-> items[k].productId.v,
                     name |-> ProductName(items[k].productId.v),
                     price |-> ProductPrice(items[k].productId.v),
                     quantity |-> items[k].quantity.v]]
    IN [_id |-> id, status |-> PENDING, items |-> lines,
        totalAmount |-> SumOfLines(lines), createdAt |-> id]

\* C12: the order-created message has no part in a placement.  A step that settles
\* a send (success or failure) changes no handler, order or stock; a placement
\* whose order is saved can always go on to its decrements, whatever the state of
\* its message; and a 201 answer, the stored order and the stocks are what the
\* request and the catalog at arrival determine, with the channel unconfigured,
\* the message still in flight, accepted or failed.
C12_PlacementIgnoresPublication ==
    /\ [][(sending' # sending /\ sending' \subseteq sending)
           => (req' = req /\ orders' = orders /\ products' = products)]_vars
    /\ [](\A h \in Handlers :
            LET r == req[h] IN
            /\ r.pc = "dec" => ENABLED DecrementStock(h)
            /\ (r.pc = "done" /\ r.res.status = 201)
               => /\ r.res.body = ExpectedOrder(r.res.body._id, r.items)
                  /\ orders[r.res.body._id] = r.res.body
                  /\ \A p \in Products :
                        products[p].stock = stock0[h][p] - Ordered(r.items, p))

\* C12 happens: a request has been answered 201 while its message is still in
\* flight.
C12_Witness ==
    \E h \in Handlers :
        /\ req[h].pc = "done"
        /\ req[h].res.status = 201
        /\ Payload(req[h].res.body) \in sending

\* C13: a request whose order has been saved is answered 201 with the order, also
\* when one of its stock decrements fails.
C13_DecrementFailureNotSurfaced ==
    \A h \in Handlers :
        (req[h].pc = "done" /\ req[h].savedOrder # Null)
        => req[h].res = Res(201, req[h].savedOrder)

\* C14 as claimed: an order whose status is COMPLETED or CANCELLED keeps that
\* status in every step.
C14_TerminalStatuses ==
    [][\A id \in DOMAIN orders :
         orders[id].status \in {COMPLETED, CANCELLED}
         => orders'[id].status = orders[id].status]_vars

\* C14 as amended: every order starts PENDING; an order's status changes only in
\* a status update that is answered 200 with that order, and only to one of the
\* three allowed statuses, whatever the status it had (COMPLETED and CANCELLED
\* included).
C14_StatusChangesByUpdateOnly ==
    [][/\ \A id \in DOMAIN orders' \ DOMAIN orders : orders'[id].status = PENDING
       /\ \A id \in DOMAIN orders :
             orders'[id].status # orders[id].status
             => /\ reply = NoReply
                /\ reply'.op = "patch"
                /\ reply'.res = Res(200, orders'[id])
                /\ reply'.was = Str(orders[id].status)
                /\ orders'[id].status \in allowedStatuses]_vars

\* C14 happens: an order that was CANCELLED has been set to COMPLETED.
C14_Witness ==
    /\ reply.op = "patch"
    /\ reply.res.status = 200
    /\ reply.was = Str(CANCELLED)
    /\ reply.res.body.status = COMPLETED

Least(a, b) == IF a <= b THEN a ELSE b

\* C15: the list of orders holds min(50, stored orders) orders of the store, no
\* order twice, in descending order of creation, and every order left out was
\* created no later than every order listed; and no step removes an order: an id
\* that resolves keeps resolving to the order of that id.
C15_ListNewestFirst ==
    /\ [](reply.op = "list"
          => LET listed == reply.res.body IN
             /\ reply.res.status = 200
             /\ Len(listed) = Least(ListLimit, Len(orders))
             /\ \A k \in DOMAIN listed :
                   /\ listed[k]._id \in DOMAIN orders
                   /\ orders[listed[k]._id] = listed[k]
                   /\ \A l \in DOMAIN listed :
                         k < l => /\ listed[k]._id # listed[l]._id
                                  /\ listed[k].createdAt >= listed[l].createdAt
             /\ \A id \in DOMAIN orders :
                   (\A k \in DOMAIN listed : listed[k]._id # id)
                   => \A k \in DOMAIN listed : orders[id].createdAt <= listed[k].createdAt)
    /\ [][\A id \in DOMAIN orders :
             id \in DOMAIN orders' /\ orders'[id]._id = orders[id]._id]_vars

\* C15 happens: the list has been returned with more orders stored than it holds.
C15_Witness ==
    /\ reply.op = "list"
    /\ Len(reply.res.body) = ListLimit
    /\ Len(orders) > ListLimit

\* a line with no product id, or with no quantity or one that is not positive
Malformed(item) ==
    \/ item.productId.t = "undefined"
    \/ item.quantity.t = "undefined"
    \/ item.quantity.v <= 0

\* C16: the lines of a request are taken left to right and the first invalid one
\* ends the request.  At any moment every line read before the last one read was
\* valid and has its order line; a 400 answer about a line is about the last line
\* read, and carries that line's first reason (malformed, else unknown product,
\* else stock below the quantity); and a handler that has answered does nothing
\* more: the lines after the offending one are never read nor looked up.
C16_FailFast ==
    /\ [](\A h \in Handlers :
            LET r == req[h]
                n == Len(r.items)
                last == r.items[n]
            IN n >= 1
               => /\ n <= r.length
                  /\ Len(r.orderItems) >= n - 1
                  /\ \A k \in 1..(n - 1) : ~Malformed(r.items[k])
                  /\ LinesMatch(SubSeq(r.orderItems, 1, n - 1), SubSeq(r.items, 1, n - 1))
                  /\ (r.pc = "done" /\ r.res.status = 400)
                     => /\ Len(r.orderItems) = n - 1
                        /\ r.res.body =
                              IF Malformed(last) THEN BadItemError
                              ELSE IF last.productId.v \notin DOMAIN products
                              THEN ProductNotFoundError(last.productId.v)
                              ELSE NotEnoughStockError(products[last.productId.v].name)
                        /\ (~Malformed(last) /\ last.productId.v \in DOMAIN products)
                           => products[last.productId.v].stock < last.quantity.v
                  /\ r.pc \in {"save", "dec"} \/ (r.pc = "done" /\ r.res.status # 400)
                     => /\ n = r.length
                        /\ ~Malformed(last)
                        /\ Len(r.orderItems) = n)
    /\ [][\A h \in Handlers :
             req[h].pc = "done" => (req'[h] = req[h] \/ req'[h] = Idle)]_vars

\* C16 happens: a request of two lines has been refused on its first line, the
\* second line unread.
C16_Witness ==
    \E h \in Handlers :
        /\ req[h].pc = "done"
        /\ req[h].res.status = 400
        /\ Len(req[h].items) = 1
        /\ req[h].length = 2

\* the quantity these order lines hold of product p
RECURSIVE Held(_, _)
Held(lines, p) ==
    IF lines = <<>> THEN 0
    ELSE (IF lines[1].productId = p THEN lines[1].quantity ELSE 0) + Held(Tail(lines), p)

\* C17: the decrements of an order are made one line at a time, in line order, and
\* nothing is undone.  While and after a request decrements, its order is in the
\* store and every product's stock is its stock at arrival minus what the order's
\* first j lines hold of it, j being the decrements made; a step of the decrement
\* loop either makes the decrement of line j + 1 alone, or fails: then the request
\* is over with j < the number of lines, and stocks and orders are left as they
\* are.
C17_SequentialDecrements ==
    /\ [](\A h \in Handlers :
            LET r == req[h] IN
            r.savedOrder # Null
            => /\ r.savedOrder._id \in DOMAIN orders
               /\ orders[r.savedOrder._id] = r.savedOrder
               /\ r.j <= Len(r.orderItems)
               /\ \A p \in Products :
                     products[p].stock =
                        stock0[h][p] - Held(SubSeq(r.savedOrder.items, 1, r.j), p)
               /\ r.pc = "done" => (r.res.status = 201 <=> r.j = Len(r.orderItems)))
    /\ [][\A h \in Handlers :
             LET r == req[h] IN
             (r.pc = "dec" /\ Steps(h, r))
             => \/ /\ req'[h].j = r.j + 1
                   /\ products' = [products EXCEPT
                         ![r.savedOrder.items[r.j + 1].productId].stock =
                            @ - r.savedOrder.items[r.j + 1].quantity]
                   /\ orders' = orders
                \/ /\ req'[h].j = r.j
                   /\ req'[h].pc = "done"
                   /\ products' = products
                   /\ orders' = orders]_vars

\* C17 happens: the second decrement of an order of two lines has failed; the
\* order is stored and the first line's decrement stands.
C17_Witness ==
    \E h \in Handlers :
        /\ req[h].pc = "done"
        /\ req[h].res.status = 500
        /\ req[h].savedOrder # Null
        /\ req[h].j = 1
        /\ Len(req[h].orderItems) = 2
        /\ products[req[h].orderItems[1].productId].stock
              < stock0[h][req[h].orderItems[1].productId]

\* C18: when the save of the order fails, the request is answered 500 "Failed to
\* create order." in that step, which stores no order, changes no stock and hands
\* no message to the sender; the request has made no decrement, and the stocks
\* are those of its arrival.
C18_SaveFailureAnswered500 ==
    /\ [][\A h \in Handlers :
             LET r == req[h] IN
             (r.pc = "save" /\ Steps(h, r) /\ orders' = orders)
             => /\ req'[h].pc = "done"
                /\ req'[h].res = Res(500, CreateFailedError)
                /\ req'[h].savedOrder = Null
                /\ req'[h].j = 0
                /\ products' = products
                /\ sending' = sending
                /\ published' = published]_vars
    /\ [](\A h \in Handlers :
            (req[h].pc = "done" /\ req[h].res.status = 500 /\ req[h].savedOrder = Null)
            => /\ req[h].j = 0
               /\ StockOf(products) = stock0[h]
               /\ \A m \in sending \cup published : m.orderId \in DOMAIN orders)

\* C18 happens: with a sender configured, the save of an order of two lines has
\* failed.
C18_Witness ==
    \E h \in Handlers :
        /\ req[h].pc = "done"
        /\ req[h].res = Res(500, CreateFailedError)
        /\ req[h].savedOrder = Null
        /\ Len(req[h].orderItems) = 2
        /\ sbSender

\* C19: no step removes an order or changes anything of a stored order but its
\* status (lines, totalAmount, createdAt and _id stay as saved, also while later
\* placements decrement the products the lines name); and a status update
\* answered 200 changes the status of the addressed order only: the other
\* orders, the stocks and the placements in progress are left as they are.
C19_UpdateStatusFrame ==
    [][/\ \A id \in DOMAIN orders :
             /\ id \in DOMAIN orders'
             /\ [orders'[id] EXCEPT !.status = orders[id].status] = orders[id]
       /\ (reply = NoReply /\ reply'.op = "patch" /\ reply'.res.status = 200)
          => /\ products' = products
             /\ req' = req
             /\ DOMAIN orders' = DOMAIN orders
             /\ \A id \in DOMAIN orders :
                   id # reply'.res.body._id => orders'[id] = orders[id]]_vars

\* C19 happens: with two orders for the same product stored, the status of the
\* first has been updated to another status.
C19_Witness ==
    /\ reply.op = "patch"
    /\ reply.res.status = 200
    /\ reply.res.body._id = 1
    /\ reply.was # Str(reply.res.body.status)
    /\ Len(orders) = 2
    /\ orders[2].items[1].productId = orders[1].items[1].productId
    /\ orders[2].status = PENDING

\* a message is about this order
About(m, order) ==
    /\ m.orderId = order._id
    /\ m.items = order.items
    /\ m.totalAmount = order.totalAmount
    /\ m.status = PENDING

\* C20: a message is handed to the sender only in the step that stores a new
\* order, for that order, by the request that saved it and has made no decrement
\* yet, and only with a sender configured; a message is published only by leaving
\* the sender's hands.  So in every state each message, in flight or published,
\* is about a stored order, carries its id, lines and totalAmount with status
\* PENDING, and no order has two; without a sender there is no message at all.
C20_EventOncePerSavedOrder ==
    /\ [][/\ \A m \in sending' \ sending :
                /\ sbSender
                /\ m.orderId \notin DOMAIN orders
                /\ orders' = Append(orders, orders'[m.orderId])
                /\ About(m, orders'[m.orderId])
                /\ \E h \in Handlers :
                      /\ req[h].pc = "save"
                      /\ req'[h].savedOrder = orders'[m.orderId]
                      /\ req'[h].j = 0
                      /\ products' = products
          /\ \A m \in published' \ published : m \in sending /\ m \notin sending']_vars
    /\ [](/\ sending \cap published = {}
          /\ \A m \in sending \cup published :
                /\ m.orderId \in DOMAIN orders
                /\ About(m, orders[m.orderId])
                /\ \A n \in sending \cup published : n.orderId = m.orderId => n = m
          /\ Cardinality(sending \cup published) <= Len(orders)
          /\ ~sbSender => sending \cup published = {})

\* C20 happens: the message of an order of two lines has been published and the
\* message of a second order is in flight.
C20_Witness ==
    /\ \E m \in published : Len(m.items) = 2
    /\ sending # {}
    /\ Len(orders) = 2
====
